---- MODULE Spec2Model ----
(***************************************************************************)
(* Model of packages/@contentlayer/core/src/commands/generate-types.ts:    *)
(* the generateTypes command, the buildSource module assembler and the     *)
(* renderFieldDef / renderFieldType / renderListItemFieldType renderers.   *)
(*                                                                         *)
(* Text is modelled as TLA+ strings, with "\n" for the line break, so the  *)
(* generated module is the very character sequence the code produces.      *)
(* An optional property (description?: string) is a sequence of length 0   *)
(* (absent) or 1 (present).  A JavaScript value that is either a string or *)
(* undefined is modelled the same way: <<s>> or undefined == <<>>.         *)
(***************************************************************************)
EXTENDS Integers, Sequences, FiniteSets, TLC

VARIABLES
    pc,                 \* position of generateTypes
    locale,             \* collation the runtime's String.localeCompare uses
    generateSchemaJson, \* the generateSchemaJson argument
    schemaDef,          \* const schemaDef (NoSchema before provideSchema resolves)
    source,             \* const source ("" before buildSource ran)
    targetFile,         \* node_modules/@types/contentlayer/types/index.d.ts
    targetDir,          \* whether the target directory exists
    schemaJsonFile,     \* <artifacts dir>/schema.json
    steps,              \* history: the I/O steps performed so far, in order
    field,              \* renderer harness: the FieldDef / list item under test
    rendered            \* renderer harness: what the renderer returned for it

vars == <<pc, locale, generateSchemaJson, schemaDef, source, targetFile,
          targetDir, schemaJsonFile, steps, field, rendered>>

(***************************************************************************)
(* Bounds of the model.                                                    *)
(***************************************************************************)
MaxDocs == 2
MaxObjects == 2
MaxDepth == 2

(***************************************************************************)
(* Strings.                                                                *)
(***************************************************************************)
undefined == <<>>

Char(s, i) == SubSeq(s, i, i)

StartsWith(s, prefix) ==
    Len(s) >= Len(prefix) /\ SubSeq(s, 1, Len(prefix)) = prefix

EndsWith(s, suffix) ==
    Len(s) >= Len(suffix) /\ SubSeq(s, Len(s) - Len(suffix) + 1, Len(s)) = suffix

\* Array.prototype.join over an array of strings
RECURSIVE join(_, _)
join(parts, sep) ==
    IF parts = <<>> THEN ""
    ELSE IF Len(parts) = 1 THEN parts[1]
    ELSE parts[1] \o sep \o join(Tail(parts), sep)

\* What join makes of one element: undefined becomes the empty string.
JoinElement(v) == IF v = undefined THEN "" ELSE v[1]

\* What the + operator makes of one operand: undefined becomes "undefined".
ConcatOperand(v) == IF v = undefined THEN "undefined" ELSE v[1]

\* `x ? a : b` on an optional string: absent and "" are both falsy.
Truthy(opt) == opt # <<>> /\ opt[1] # ""

\* `a ?? b` on optional strings: only an absent a falls back to b.
Coalesce(a, b) == IF a # <<>> THEN a ELSE b

(***************************************************************************)
(* The renderers, lines 138-190.                                           *)
(***************************************************************************)
RECURSIVE renderFieldDef(_), renderFieldType(_), renderListItemFieldType(_)

\* a mutation of renderFieldDef: the type of a field that is not required is
\* wrapped in parentheses before the suffix
renderFieldDefWrapped(f) ==
    (IF Truthy(f.description) THEN "  /** " \o f.description[1] \o " */\n" ELSE "")
        \o "  " \o f.name \o ": "
        \o (IF f.required THEN renderFieldType(f)
            ELSE "(" \o renderFieldType(f) \o ")" \o " | undefined")

\* lines 138-142
renderFieldDef(f) ==
    (IF Truthy(f.description) THEN "  /** " \o f.description[1] \o " */\n" ELSE "")
        \o "  " \o f.name \o ": " \o renderFieldType(f)
        \o (IF f.required THEN "" ELSE " | undefined")

\* lines 144-174
renderFieldType(f) ==
    CASE f.type \in {"boolean", "string"} -> f.type
      [] f.type = "date" -> "string"
      [] f.type = "image" -> "Image"
      [] f.type = "markdown" -> "Markdown"
      [] f.type = "inline_object" ->
            "{\n" \o join([i \in 1..Len(f.fieldDefs) |-> renderFieldDef(f.fieldDefs[i])], "\n") \o "\n}"
      [] f.type = "object" -> f.objectName
      [] f.type = "reference" -> "string"
      [] f.type = "polymorphic_list" ->
            "(" \o join([i \in 1..Len(f.of) |->
                            JoinElement(renderListItemFieldType(f.of[i]))], " | ")
                \o ")" \o "[]"
      [] f.type = "list" -> ConcatOperand(renderListItemFieldType(f.of)) \o "[]"
      [] f.type = "enum" ->
            join([i \in 1..Len(f.options) |-> "'" \o f.options[i] \o "'"], " | ")
      [] OTHER -> "'todo " \o f.type \o "'"

\* a mutation of renderListItemFieldType: an enum item is not parenthesised
renderListItemFieldTypeBare(item) ==
    CASE item.type \in {"boolean", "string"} -> <<item.type>>
      [] item.type = "object" -> <<item.objectName>>
      [] item.type = "enum" ->
            <<join([i \in 1..Len(item.options) |->
                        "'" \o item.options[i] \o "'"], " | ")>>
      [] item.type = "inline_object" ->
            <<"{\n" \o join([i \in 1..Len(item.fieldDefs) |-> renderFieldDef(item.fieldDefs[i])], "\n") \o "\n}">>
      [] item.type = "reference" -> <<item.documentName>>
      [] OTHER -> undefined

\* lines 176-190: no case matches, nothing is returned
renderListItemFieldType(item) ==
    CASE item.type \in {"boolean", "string"} -> <<item.type>>
      [] item.type = "object" -> <<item.objectName>>
      [] item.type = "enum" ->
            <<"(" \o join([i \in 1..Len(item.options) |->
                              "'" \o item.options[i] \o "'"], " | ") \o ")">>
      [] item.type = "inline_object" ->
            <<"{\n" \o join([i \in 1..Len(item.fieldDefs) |-> renderFieldDef(item.fieldDefs[i])], "\n") \o "\n}">>
      [] item.type = "reference" -> <<item.documentName>>
      [] OTHER -> undefined

(***************************************************************************)
(* String.prototype.localeCompare, lines 38 and 66.  Its result depends on *)
(* the runtime: a build with Intl support collates (letters first, case    *)
(* only as a tie-break, lower case before upper case); a build without it  *)
(* compares UTF-16 code units.  Names are made of ASCII letters.           *)
(***************************************************************************)
UpperCase == "ABCDEFGHIJKLMNOPQRSTUVWXYZ"
LowerCase == "abcdefghijklmnopqrstuvwxyz"

\* the position of each letter in its alphabet
LetterIndex(alphabet) ==
    [c \in {Char(alphabet, i) : i \in 1..Len(alphabet)} |->
        CHOOSE i \in 1..Len(alphabet) : Char(alphabet, i) = c]

UpperIndex == LetterIndex(UpperCase)
LowerIndex == LetterIndex(LowerCase)

IsUpper(c) == c \in DOMAIN UpperIndex

\* UTF-16 code unit of an ASCII letter: "A" is 65, "a" is 97
CodeUnit(c) == IF IsUpper(c) THEN 64 + UpperIndex[c] ELSE 96 + LowerIndex[c]

\* primary collation weight: the letter, whatever its case
PrimaryWeight(c) == IF IsUpper(c) THEN UpperIndex[c] ELSE LowerIndex[c]

\* tertiary collation weight: lower case before upper case
TertiaryWeight(c) == IF IsUpper(c) THEN 1 ELSE 0

\* -1, 0 or 1: the first difference decides, then the length
CompareSeq(x, y) ==
    LET n == IF Len(x) < Len(y) THEN Len(x) ELSE Len(y)
        diff == {i \in 1..n : x[i] # y[i]}
    IN  IF diff = {}
        THEN (IF Len(x) < Len(y) THEN -1 ELSE IF Len(x) > Len(y) THEN 1 ELSE 0)
        ELSE LET i == CHOOSE k \in diff : \A j \in diff : k <= j
             IN  IF x[i] < y[i] THEN -1 ELSE 1

CodeUnits(s) == [i \in 1..Len(s) |-> CodeUnit(Char(s, i))]
PrimaryWeights(s) == [i \in 1..Len(s) |-> PrimaryWeight(Char(s, i))]
TertiaryWeights(s) == [i \in 1..Len(s) |-> TertiaryWeight(Char(s, i))]

codeUnitCompare(a, b) == CompareSeq(CodeUnits(a), CodeUnits(b))

collationCompare(a, b) ==
    LET p == CompareSeq(PrimaryWeights(a), PrimaryWeights(b))
    IN  IF p # 0 THEN p ELSE CompareSeq(TertiaryWeights(a), TertiaryWeights(b))

localeCompare(a, b) ==
    IF locale = "intl" THEN collationCompare(a, b) ELSE codeUnitCompare(a, b)

\* the comparator (a, b) => a.name.localeCompare(b.name)
compareByName(a, b) == localeCompare(a.name, b.name)

\* a mutation of sortByName: the definitions are left in iteration order
sortByNameOmitted(defs) == defs

\* Object.values(map).sort((a, b) => a.name.localeCompare(b.name)):
\* Array.prototype.sort with a comparator is a stable sort
RECURSIVE sortByName(_)
sortByName(defs) ==
    IF defs = <<>> THEN <<>>
    ELSE LET front == sortByName(SubSeq(defs, 1, Len(defs) - 1))
             x == defs[Len(defs)]
             k == Cardinality({i \in 1..Len(front) : compareByName(front[i], x) <= 0})
         IN  SubSeq(front, 1, k) \o <<x>> \o SubSeq(front, k + 1, Len(front))

(***************************************************************************)
(* buildSource, lines 36-136.  schemaDef.documentDefMap and .objectDefMap  *)
(* are sequences: the definitions in the iteration order of Object.values. *)
(***************************************************************************)
\* a mutation of renderComputedField: the type is rendered as a field's type
renderComputedFieldAsField(f) ==
    (IF Truthy(f.description) THEN "    /** " \o f.description[1] \o " */\n" ELSE "")
        \o "    " \o f.name \o ": " \o renderFieldType(f)

\* lines 46-47
renderComputedField(f) ==
    (IF Truthy(f.description) THEN "    /** " \o f.description[1] \o " */\n" ELSE "")
        \o "    " \o f.name \o ": " \o f.type

\* lines 39-61
documentType(docDef) ==
    LET fieldDefs ==
            join([i \in 1..Len(docDef.fieldDefs) |->
                        renderFieldDef(docDef.fieldDefs[i])], "\n")
                \o "\n"
                \o join([i \in 1..Len(docDef.computedFields) |->
                            renderComputedField(docDef.computedFields[i])], "\n")
        description == Coalesce(docDef.description, <<docDef.label>>)
    IN  [typeName |-> docDef.name,
         typeDef |->
            (IF Truthy(description) THEN "/** " \o description[1] \o " */\n" ELSE "")
                \o "export type " \o docDef.name \o " = {\n"
                \o "  _id: string\n"
                \o "  _typeName: '" \o docDef.name \o "'\n"
                \o "  _raw?: Record<string, any>\n"
                \o fieldDefs \o "\n"
                \o "}"]

\* lines 67-80
objectType(objectDef) ==
    LET description == Coalesce(objectDef.description, <<objectDef.label>>)
        fieldDefs == join([i \in 1..Len(objectDef.fieldDefs) |->
                              renderFieldDef(objectDef.fieldDefs[i])], "\n")
    IN  [typeName |-> objectDef.name,
         typeDef |->
            (IF Truthy(description) THEN "/** " \o description[1] \o " */\n" ELSE "")
                \o "export type " \o objectDef.name \o " = {\n"
                \o "  _typeName: '" \o objectDef.name \o "'\n"
                \o "  _raw?: Record<string, any>\n"
                \o fieldDefs \o "\n"
                \o "}"]

\* documentTypes.map((_) => _.typeName)
typeNames(types) == [i \in 1..Len(types) |-> types[i].typeName]

\* documentTypes.map((_) => _.typeDef)
typeDefs(types) == [i \in 1..Len(types) |-> types[i].typeDef]

\* lines 82-85
typeMap(documentTypes) ==
    join([i \in 1..Len(documentTypes) |->
            "  " \o documentTypes[i].typeName \o ": " \o documentTypes[i].typeName], "\n")

\* lines 88-105
Preamble ==
    "// NOTE This file is auto-generated by the Contentlayer CLI\n"
        \o "import type { Markdown } from '@contentlayer/core'\n"
        \o "\n"
        \o "export type Image = string\n"
        \o "export type { Markdown }\n"
        \o "\n\n\n"
        \o "export interface ContentlayerGenTypes {\n"
        \o "  documentTypes: DocumentTypes\n"
        \o "  documentTypeMap: DocumentTypeMap\n"
        \o "  documentTypeNames: DocumentTypeNames\n"
        \o "  allTypeNames: AllTypeNames\n"
        \o "}\n"
        \o "\n"
        \o "declare global {\n"
        \o "  interface ContentlayerGen extends ContentlayerGenTypes {}\n"
        \o "}\n"
        \o "\n"

\* line 114
documentTypesUnion(documentTypes) == join(typeNames(documentTypes), " | ")

\* a mutation of objectTypesUnion: the names are joined whatever their number
objectTypesUnionJoined(objectTypes) == join(typeNames(objectTypes), " | ")

\* line 131
objectTypesUnion(objectTypes) ==
    IF Len(objectTypes) > 0 THEN join(typeNames(objectTypes), " | ") ELSE "never"

\* a mutation of documentDeclarations: no blank line between the blocks
documentDeclarationsAdjacent(documentTypes) ==
    join(typeDefs(documentTypes), "\n")

\* line 123
documentDeclarations(documentTypes) == join(typeDefs(documentTypes), "\n\n")

\* line 134
objectDeclarations(objectTypes) == join(typeDefs(objectTypes), "\n\n")

buildSource(schema) ==
    LET sortedDocumentDefs == sortByName(schema.documentDefMap)
        sortedObjectDefs == sortByName(schema.objectDefMap)
        documentTypes ==
            [i \in 1..Len(sortedDocumentDefs) |-> documentType(sortedDocumentDefs[i])]
        objectTypes ==
            [i \in 1..Len(sortedObjectDefs) |-> objectType(sortedObjectDefs[i])]
    IN  Preamble
            \o "export type DocumentTypeMap = {\n"
            \o typeMap(documentTypes) \o "\n"
            \o "}\n"
            \o "\n"
            \o "export type AllTypes = DocumentTypes | ObjectTypes\n"
            \o "export type AllTypeNames = DocumentTypeNames | ObjectTypeNames\n"
            \o "\n"
            \o "export type DocumentTypes = " \o documentTypesUnion(documentTypes) \o "\n"
            \o "export type DocumentTypeNames = DocumentTypes['_typeName']\n"
            \o "\n"
            \o "/** Document types */\n"
            \o "\n"
            \o "" \o "\n"
            \o "\n"
            \o documentDeclarations(documentTypes) \o "\n"
            \o "\n"
            \o "/** Object types */\n"
            \o "\n"
            \o "" \o "\n"
            \o "\n"
            \o "export type ObjectTypes = " \o objectTypesUnion(objectTypes) \o "\n"
            \o "export type ObjectTypeNames = ObjectTypes['_typeName']\n"
            \o "\n"
            \o objectDeclarations(objectTypes) \o "\n"

(***************************************************************************)
(* The schemas the provider may return: up to MaxDocs document types and   *)
(* up to MaxObjects object types out of the definitions below, in any      *)
(* iteration order.  Names are unique within each map.                     *)
(***************************************************************************)
TitleField ==
    [name |-> "title", type |-> "string", required |-> TRUE, description |-> <<>>]

Post ==
    [name |-> "Post", label |-> "Post", description |-> <<"A post">>,
     fieldDefs |-> <<TitleField>>, computedFields |-> <<>>]

BlogPost ==
    [name |-> "BlogPost", label |-> "Blog post", description |-> <<>>,
     fieldDefs |->
        <<TitleField,
          [name |-> "tags", type |-> "list", of |-> [type |-> "string"],
           required |-> FALSE, description |-> <<"Tags">>],
          [name |-> "link", type |-> "object", objectName |-> "Link",
           required |-> FALSE, description |-> <<>>]>>,
     computedFields |->
        <<[name |-> "slug", type |-> "string", description |-> <<>>],
          [name |-> "readingTime", type |-> "number | undefined",
           description |-> <<"Minutes">>]>>]

Blogger ==
    [name |-> "Blogger", label |-> "Blogger", description |-> <<"">>,
     fieldDefs |-> <<>>,
     computedFields |->
        <<[name |-> "posts", type |-> "BlogPost[]", description |-> <<>>]>>]

Author ==
    [name |-> "author", label |-> "Author", description |-> <<>>,
     fieldDefs |->
        <<[name |-> "bio", type |-> "inline_object",
           fieldDefs |->
              <<[name |-> "text", type |-> "markdown", required |-> TRUE,
                 description |-> <<>>],
                [name |-> "born", type |-> "date", required |-> FALSE,
                 description |-> <<"Birth">>]>>,
           required |-> TRUE, description |-> <<>>],
          [name |-> "role", type |-> "enum", options |-> <<"admin", "editor">>,
           required |-> TRUE, description |-> <<>>]>>,
     computedFields |-> <<>>]

DocumentDefs == {Post, BlogPost, Blogger, Author}

Link ==
    [name |-> "Link", label |-> "Link", description |-> <<"A link">>,
     fieldDefs |->
        <<[name |-> "url", type |-> "string", required |-> TRUE,
           description |-> <<>>],
          [name |-> "external", type |-> "boolean", required |-> FALSE,
           description |-> <<>>]>>]

LinkList ==
    [name |-> "LinkList", label |-> "Link list", description |-> <<>>,
     fieldDefs |->
        <<[name |-> "items", type |-> "polymorphic_list",
           of |-> <<[type |-> "object", objectName |-> "Link"],
                    [type |-> "reference", documentName |-> "Post"]>>,
           required |-> TRUE, description |-> <<>>]>>]

Linkage ==
    [name |-> "Linkage", label |-> "", description |-> <<>>, fieldDefs |-> <<>>]

ObjectDefs == {Link, LinkList, Linkage}

\* the sequences without repetition of at most n elements of S
InjectiveSeqs(S, n) ==
    {s \in UNION {[1..k -> S] : k \in 0..n} :
        \A i, j \in 1..Len(s) : i # j => s[i] # s[j]}

SchemaDefs ==
    [documentDefMap : InjectiveSeqs(DocumentDefs, MaxDocs),
     objectDefMap : InjectiveSeqs(ObjectDefs, MaxObjects)]

NoSchema == [documentDefMap |-> <<>>, objectDefMap |-> <<>>]

(***************************************************************************)
(* generateTypes, lines 8-34: one action per await.  Every I/O call may    *)
(* reject, which rejects the promise generateTypes returned.               *)
(***************************************************************************)
OldContent == "// a previous run's index.d.ts\n"

Init ==
    /\ pc = "provideSchema"
    /\ locale \in {"intl", "codeunit"}
    /\ generateSchemaJson \in BOOLEAN
    /\ schemaDef = NoSchema
    /\ source = ""
    /\ targetFile \in {<<>>, <<OldContent>>}
    /\ targetDir = (targetFile # <<>>)
    /\ schemaJsonFile = <<>>
    /\ steps = <<>>
    /\ field = TitleField
    /\ rendered = <<>>

Rejected ==
    /\ pc' = "rejected"
    /\ UNCHANGED <<schemaDef, source, targetFile, targetDir, schemaJsonFile, steps>>

\* line 15
ProvideSchema ==
    /\ pc = "provideSchema"
    /\ \/ \E s \in SchemaDefs :
            /\ schemaDef' = s
            /\ steps' = Append(steps, "provideSchema")
            /\ pc' = IF generateSchemaJson THEN "makeArtifactsDir" ELSE "mkdir"
            /\ UNCHANGED <<source, targetFile, targetDir, schemaJsonFile>>
       \/ Rejected
    /\ UNCHANGED <<locale, generateSchemaJson, field, rendered>>

\* line 18
MakeArtifactsDir ==
    /\ pc = "makeArtifactsDir"
    /\ \/ /\ steps' = Append(steps, "makeArtifactsDir")
          /\ pc' = "writeSchemaJson"
          /\ UNCHANGED <<schemaDef, source, targetFile, targetDir, schemaJsonFile>>
       \/ Rejected
    /\ UNCHANGED <<locale, generateSchemaJson, field, rendered>>

\* line 19: the file holds the serialisation of schemaDef
WriteSchemaJson ==
    /\ pc = "writeSchemaJson"
    /\ \/ /\ schemaJsonFile' = <<schemaDef>>
          /\ steps' = Append(steps, "writeSchemaJson")
          /\ pc' = "mkdir"
          /\ UNCHANGED <<schemaDef, source, targetFile, targetDir>>
       \/ Rejected
    /\ UNCHANGED <<locale, generateSchemaJson, field, rendered>>

\* lines 22-25: buildSource is synchronous, then mkdir is awaited
Mkdir ==
    /\ pc = "mkdir"
    /\ source' = buildSource(schemaDef)
    /\ \/ /\ targetDir' = TRUE
          /\ steps' = Append(steps, "mkdir")
          /\ pc' = "fileExists"
       \/ /\ pc' = "rejected"
          /\ UNCHANGED <<targetDir, steps>>
    /\ UNCHANGED <<schemaDef, targetFile, schemaJsonFile>>
    /\ UNCHANGED <<locale, generateSchemaJson, field, rendered>>

\* a mutation of FileExists: the answer is ignored and nothing is removed
FileExistsIgnored ==
    /\ pc = "fileExists"
    /\ pc' = "writeFile"
    /\ UNCHANGED <<schemaDef, source, targetFile, targetDir, schemaJsonFile, steps>>
    /\ UNCHANGED <<locale, generateSchemaJson, field, rendered>>

\* line 28
FileExists ==
    /\ pc = "fileExists"
    /\ pc' = IF targetFile # <<>> THEN "unlink" ELSE "writeFile"
    /\ UNCHANGED <<schemaDef, source, targetFile, targetDir, schemaJsonFile, steps>>
    /\ UNCHANGED <<locale, generateSchemaJson, field, rendered>>

\* line 29
Unlink ==
    /\ pc = "unlink"
    /\ \/ /\ targetFile' = <<>>
          /\ steps' = Append(steps, "unlink")
          /\ pc' = "writeFile"
          /\ UNCHANGED <<schemaDef, source, targetDir, schemaJsonFile>>
       \/ Rejected
    /\ UNCHANGED <<locale, generateSchemaJson, field, rendered>>

\* lines 31-33
WriteFile ==
    /\ pc = "writeFile"
    /\ \/ /\ targetFile' = <<source>>
          /\ steps' = Append(steps, "writeFile")
          /\ pc' = "done"
          /\ UNCHANGED <<schemaDef, source, targetDir, schemaJsonFile>>
       \/ Rejected
    /\ UNCHANGED <<locale, generateSchemaJson, field, rendered>>

Next ==
    \/ ProvideSchema
    \/ MakeArtifactsDir
    \/ WriteSchemaJson
    \/ Mkdir
    \/ FileExists
    \/ Unlink
    \/ WriteFile

Spec == Init /\ [][Next]_vars

(***************************************************************************)
(* buildSource on its own: a schema and a runtime are drawn, and the       *)
(* function is applied.                                                    *)
(***************************************************************************)
InitBuild ==
    /\ pc = "build"
    /\ locale \in {"intl", "codeunit"}
    /\ generateSchemaJson = FALSE
    /\ schemaDef \in SchemaDefs
    /\ source = ""
    /\ targetFile = <<>>
    /\ targetDir = FALSE
    /\ schemaJsonFile = <<>>
    /\ steps = <<>>
    /\ field = TitleField
    /\ rendered = <<>>

BuildSource ==
    /\ pc = "build"
    /\ source' = buildSource(schemaDef)
    /\ pc' = "built"
    /\ UNCHANGED <<locale, generateSchemaJson, schemaDef, targetFile, targetDir,
                   schemaJsonFile, steps, field, rendered>>

NextBuild == BuildSource

BuildSpec == InitBuild /\ [][NextBuild]_vars

(***************************************************************************)
(* The renderers on their own: a FieldDef or a list item is drawn, and one *)
(* of renderFieldDef, renderFieldType, renderListItemFieldType is applied. *)
(* Inline objects nest up to MaxDepth deep.  The kinds "json" (a field)    *)
(* and "date", "json" (a list item) are kinds the switch statements have   *)
(* no case for.                                                            *)
(***************************************************************************)
SiblingField ==
    [name |-> "note", type |-> "string", required |-> FALSE,
     description |-> <<"A note">>]

LeafItems ==
    {[type |-> "boolean"], [type |-> "string"],
     [type |-> "object", objectName |-> "Link"],
     [type |-> "enum", options |-> <<"a", "b">>],
     [type |-> "reference", documentName |-> "Post"],
     [type |-> "date"], [type |-> "json"]}

LeafFieldPayloads ==
    {[type |-> "boolean"], [type |-> "string"], [type |-> "date"],
     [type |-> "image"], [type |-> "markdown"], [type |-> "reference"],
     [type |-> "object", objectName |-> "Link"],
     [type |-> "enum", options |-> <<"a", "b">>],
     [type |-> "json"]}

\* the field: its name, required flag and description, and its kind's payload
Field(name, required, description, payload) ==
    [k \in DOMAIN payload \cup {"name", "required", "description"} |->
        CASE k = "name" -> name
          [] k = "required" -> required
          [] k = "description" -> description
          [] OTHER -> payload[k]]

\* field lists around one varying member
Around(members) ==
    {<<>>} \cup {<<m>> : m \in members}
           \cup {<<SiblingField, m>> : m \in members}
           \cup {<<m, SiblingField>> : m \in members}

\* the fields that are members of an inline object nested at most d deep
RECURSIVE MemberFields(_)
MemberFields(d) ==
    {Field("m", r, <<>>, [type |-> "string"]) : r \in BOOLEAN}
        \cup (IF d = 0 THEN {}
              ELSE {Field("m", r, <<>>, [type |-> "inline_object", fieldDefs |-> fs]) :
                        r \in BOOLEAN, fs \in Around(MemberFields(d - 1))})

InlineObjects(d) ==
    IF d = 0 THEN {}
    ELSE {[type |-> "inline_object", fieldDefs |-> fs] : fs \in Around(MemberFields(d - 1))}

ListItems == LeafItems \cup InlineObjects(MaxDepth)

ListPayloads == {[type |-> "list", of |-> item] : item \in ListItems}

PolymorphicListPayloads ==
    {[type |-> "polymorphic_list", of |-> items] :
        items \in {<<>>} \cup {<<item>> : item \in ListItems}
                         \cup {<<[type |-> "string"], item>> : item \in ListItems}}

FieldDefs ==
    {Field("f", r, d, payload) :
        r \in BOOLEAN, d \in {<<>>, <<"A field">>},
        payload \in LeafFieldPayloads \cup InlineObjects(MaxDepth)
                        \cup ListPayloads \cup PolymorphicListPayloads}

IsFieldDef(x) == "name" \in DOMAIN x

InitRender ==
    /\ pc = "render"
    /\ locale = "intl"
    /\ generateSchemaJson = FALSE
    /\ schemaDef = NoSchema
    /\ source = ""
    /\ targetFile = <<>>
    /\ targetDir = FALSE
    /\ schemaJsonFile = <<>>
    /\ steps = <<>>
    /\ field \in FieldDefs \cup ListItems
    /\ rendered = <<>>

Returned(by, value) ==
    /\ pc = "render"
    /\ pc' = "rendered"
    /\ rendered' = <<[by |-> by, value |-> value]>>
    /\ UNCHANGED <<locale, generateSchemaJson, schemaDef, source, targetFile,
                   targetDir, schemaJsonFile, steps, field>>

RenderFieldDef ==
    IsFieldDef(field) /\ Returned("renderFieldDef", <<renderFieldDef(field)>>)

RenderFieldType ==
    IsFieldDef(field) /\ Returned("renderFieldType", <<renderFieldType(field)>>)

RenderListItemFieldType ==
    ~IsFieldDef(field)
        /\ Returned("renderListItemFieldType", renderListItemFieldType(field))

NextRender ==
    \/ RenderFieldDef
    \/ RenderFieldType
    \/ RenderListItemFieldType

RenderSpec == InitRender /\ [][NextRender]_vars

(***************************************************************************)
(* Reading the generated text back: its lines, and where its parts are.    *)
(***************************************************************************)
\* what s.split("\n") gives
Lines(s) ==
    LET IsLineBreak(i) == Char(s, i) = "\n"
        breaks == SelectSeq([i \in 1..Len(s) |-> i], IsLineBreak)
    IN  [k \in 1..(Len(breaks) + 1) |->
            SubSeq(s, IF k = 1 THEN 1 ELSE breaks[k - 1] + 1,
                      IF k > Len(breaks) THEN Len(s) ELSE breaks[k] - 1)]

Range(xs) == {xs[i] : i \in 1..Len(xs)}

IsNotBlank(l) == l # ""
NonBlank(ls) == SelectSeq(ls, IsNotBlank)

\* the elements of a finite set of integers in ascending order
Ascending(S) ==
    [k \in 1..Cardinality(S) |->
        CHOOSE i \in S : Cardinality({j \in S : j < i}) = k - 1]

Min(S) == CHOOSE i \in S : \A j \in S : i <= j
Max(S) == CHOOSE i \in S : \A j \in S : i >= j

\* index of the first line equal to l, 0 when there is none
LineIndex(ls, l) ==
    LET at == {i \in 1..Len(ls) : ls[i] = l} IN IF at = {} THEN 0 ELSE Min(at)

\* index of the first line starting with prefix, 0 when there is none
PrefixIndex(ls, prefix) ==
    LET at == {i \in 1..Len(ls) : StartsWith(ls[i], prefix)}
    IN  IF at = {} THEN 0 ELSE Min(at)

\* ls[i] without its first Len(prefix) characters
After(l, prefix) == SubSeq(l, Len(prefix) + 1, Len(l))

\* whether the lines part occur in ls, one after the other
Occurs(part, ls) ==
    \E i \in 1..(Len(ls) - Len(part) + 1) : SubSeq(ls, i, i + Len(part) - 1) = part

\* whether sub occurs in the string s
Contains(s, sub) ==
    \E i \in 1..(Len(s) - Len(sub) + 1) : SubSeq(s, i, i + Len(sub) - 1) = sub

RECURSIVE Flatten(_)
Flatten(xss) == IF xss = <<>> THEN <<>> ELSE Head(xss) \o Flatten(Tail(xss))

DocumentsMarker == "/** Document types */"
ObjectsMarker == "/** Object types */"
DocumentTypesAlias == "export type DocumentTypes = "
ObjectTypesAlias == "export type ObjectTypes = "
HeaderStart == "export type "
HeaderEnd == " = {"

IsHeader(l) == StartsWith(l, HeaderStart) /\ EndsWith(l, HeaderEnd)
HeaderName(l) == SubSeq(l, Len(HeaderStart) + 1, Len(l) - Len(HeaderEnd))

\* indexes of the declaration headers between lines from and to, ascending
Headers(ls, from, to) == Ascending({i \in from..to : IsHeader(ls[i])})

DocumentHeaders(ls) ==
    Headers(ls, LineIndex(ls, DocumentsMarker), LineIndex(ls, ObjectsMarker))
ObjectHeaders(ls) == Headers(ls, LineIndex(ls, ObjectsMarker), Len(ls))

NamesAt(ls, headers) == [k \in 1..Len(headers) |-> HeaderName(ls[headers[k]])]

\* the body of the declaration whose header is line h: the lines after the
\* header up to the last "}" before line next
Body(ls, h, next) ==
    SubSeq(ls, h + 1, Max({i \in (h + 1)..(next - 1) : ls[i] = "}"}) - 1)

\* buildSource returned: source is the generated text
Built == pc = "built"

Arrangements(xs) ==
    {p \in [1..Len(xs) -> Range(xs)] : \A i, j \in 1..Len(xs) : i # j => p[i] # p[j]}

NamesOf(defs) == [i \in 1..Len(defs) |-> defs[i].name]

\* a < b in the order of the UTF-16 code units, the order of < on strings
LexLess(a, b) == CompareSeq(CodeUnits(a), CodeUnits(b)) < 0

\* a before b for the runtime's localeCompare
LocaleLess(a, b) == localeCompare(a, b) < 0

LexAscending(names) ==
    \A i \in 1..(Len(names) - 1) : LexLess(names[i], names[i + 1])

LocaleAscending(names) ==
    \A i \in 1..(Len(names) - 1) : LocaleLess(names[i], names[i + 1])

\* the names of defs arranged in ascending order of localeCompare
SortedNames(defs) ==
    CHOOSE p \in Arrangements(NamesOf(defs)) : LocaleAscending(p)

(***************************************************************************)
(* Claims about buildSource, checked under BuildSpec.                      *)
(***************************************************************************)
PostSchema == [documentDefMap |-> <<Post>>, objectDefMap |-> <<>>]

PostBlock ==
    <<"/** A post */",
      "export type Post = {",
      "  _id: string",
      "  _typeName: 'Post'",
      "  _raw?: Record<string, any>",
      "  title: string",
      "}">>

\* C1: for the schema with the one document type Post (description "A post",
\* one required string field title, no computed fields) and no object type,
\* the document declaration block in the generated text is exactly the seven
\* lines of PostBlock, one after the other, with no line between them.
C1_PostBlockIsSevenLines ==
    (Built /\ schemaDef = PostSchema) =>
        LET ls == Lines(source)
            i == LineIndex(ls, PostBlock[1])
        IN  /\ i > 0
            /\ i + Len(PostBlock) - 1 <= Len(ls)
            /\ SubSeq(ls, i, i + Len(PostBlock) - 1) = PostBlock

\* the right-hand side of the alias whose line starts with alias
AliasRhs(ls, alias) == After(ls[PrefixIndex(ls, alias)], alias)

\* C2: the right-hand side of the ObjectTypes alias is 'never' when the
\* schema has no object type, and otherwise the object type names in sorted
\* order joined by ' | '; it is never empty.
C2_ObjectTypesAlias ==
    Built =>
        LET ls == Lines(source)
            rhs == AliasRhs(ls, ObjectTypesAlias)
        IN  /\ PrefixIndex(ls, ObjectTypesAlias) > 0
            /\ rhs # ""
            /\ IF schemaDef.objectDefMap = <<>>
               THEN rhs = "never"
               ELSE rhs = join(SortedNames(schemaDef.objectDefMap), " | ")

C2_Witness ==
    /\ Built
    /\ schemaDef.objectDefMap = <<>>
    /\ schemaDef.documentDefMap # <<>>
    /\ LineIndex(Lines(source), "export type ObjectTypes = never") > 0

\* the schemas holding the same definitions as schema, in every iteration order
Reorderings(schema) ==
    [documentDefMap : Arrangements(schema.documentDefMap),
     objectDefMap : Arrangements(schema.objectDefMap)]

\* the names of the document declaration blocks, in the order of the text
DocumentBlockNames == NamesAt(Lines(source), DocumentHeaders(Lines(source)))

\* the names of the object declaration blocks, in the order of the text
ObjectBlockNames == NamesAt(Lines(source), ObjectHeaders(Lines(source)))

\* every definition of the schema has its declaration block
EveryTypeDeclared ==
    /\ Len(DocumentBlockNames) = Len(schemaDef.documentDefMap)
    /\ Len(ObjectBlockNames) = Len(schemaDef.objectDefMap)
    /\ Range(DocumentBlockNames) = Range(NamesOf(schemaDef.documentDefMap))
    /\ Range(ObjectBlockNames) = Range(NamesOf(schemaDef.objectDefMap))

IterationOrderIrrelevant ==
    \A other \in Reorderings(schemaDef) : buildSource(other) = source

\* C3, as claimed: the declaration blocks of the document types, and those
\* of the object types, appear in strictly ascending lexicographic order of
\* name, and the output is the same for every iteration order of the maps.
C3_LexicographicOrder ==
    Built =>
        /\ EveryTypeDeclared
        /\ LexAscending(DocumentBlockNames)
        /\ LexAscending(ObjectBlockNames)
        /\ IterationOrderIrrelevant

\* C3, as amended: the declaration blocks of the document types, and those
\* of the object types, appear in strictly ascending order of
\* name.localeCompare, and the output is the same for every iteration order
\* of the maps.
C3_LocaleCompareOrder ==
    Built =>
        /\ EveryTypeDeclared
        /\ LocaleAscending(DocumentBlockNames)
        /\ LocaleAscending(ObjectBlockNames)
        /\ IterationOrderIrrelevant

C3_Witness ==
    /\ Built
    /\ locale = "intl"
    /\ schemaDef.documentDefMap = <<BlogPost, Blogger>>
    /\ schemaDef.objectDefMap = <<LinkList, Linkage>>
    /\ DocumentBlockNames = <<"Blogger", "BlogPost">>
    /\ ObjectBlockNames = <<"Linkage", "LinkList">>

\* C7: the right-hand side of the DocumentTypes alias is the document type
\* names in sorted order joined by ' | ' when there is a document type, and a
\* non-empty bottom type expression when there is none; it is never empty.
C7_DocumentTypesAlias ==
    Built =>
        LET ls == Lines(source)
            rhs == AliasRhs(ls, DocumentTypesAlias)
        IN  /\ PrefixIndex(ls, DocumentTypesAlias) > 0
            /\ rhs # ""
            /\ schemaDef.documentDefMap # <<>> =>
                    rhs = join(SortedNames(schemaDef.documentDefMap), " | ")

\* where the parts of the generated text are: line numbers, 0 when missing
PreambleLines == Len(Lines(Preamble)) - 1
MapSection(ls) ==
    LET i == LineIndex(ls, "export type DocumentTypeMap = {")
    IN  <<i, Min({j \in (i + 1)..Len(ls) : ls[j] = "}"})>>
CombinedSection(ls) ==
    <<LineIndex(ls, "export type AllTypes = DocumentTypes | ObjectTypes"),
      LineIndex(ls, "export type AllTypeNames = DocumentTypeNames | ObjectTypeNames")>>
UnionSection(ls) ==
    <<PrefixIndex(ls, DocumentTypesAlias),
      LineIndex(ls, "export type DocumentTypeNames = DocumentTypes['_typeName']")>>

\* the first line of the declaration block whose header is line h
BlockStart(ls, h) == IF StartsWith(ls[h - 1], "/** ") THEN h - 1 ELSE h

\* the text starts with the preamble; then come sections first, second and
\* third; then the document declaration blocks, a blank line between two of
\* them; then the ObjectTypes alias; then the object declaration blocks.  The
\* mapping alias has one entry per document type, in sorted order.
SectionsInOrder(ls, first, second, third) ==
    LET docs == DocumentHeaders(ls)
        objs == ObjectHeaders(ls)
        map == MapSection(ls)
        names == SortedNames(schemaDef.documentDefMap)
        objectsAlias == PrefixIndex(ls, ObjectTypesAlias)
    IN  /\ StartsWith(source, Preamble)
        /\ PreambleLines < first[1] /\ first[1] < first[2]
        /\ first[2] < second[1] /\ second[1] < second[2]
        /\ second[2] < third[1] /\ third[1] < third[2]
        /\ NonBlank(SubSeq(ls, map[1] + 1, map[2] - 1)) =
                [k \in 1..Len(names) |-> "  " \o names[k] \o ": " \o names[k]]
        /\ Len(docs) = Len(schemaDef.documentDefMap)
        /\ \A k \in 1..Len(docs) : third[2] < docs[k] /\ docs[k] < objectsAlias
        /\ \A k \in 2..Len(docs) :
                /\ ls[BlockStart(ls, docs[k]) - 1] = ""
                /\ ls[BlockStart(ls, docs[k]) - 2] = "}"
        /\ third[2] < objectsAlias
        /\ Len(objs) = Len(schemaDef.objectDefMap)
        /\ \A k \in 1..Len(objs) : objectsAlias < objs[k]

\* C8, as claimed: the sections of the generated text are, in this order, the
\* preamble, the DocumentTypes alias with DocumentTypeNames, the combined
\* AllTypes and AllTypeNames aliases, the DocumentTypeMap alias (one entry per
\* document type, sorted), the document declaration blocks separated by a
\* blank line, the ObjectTypes alias, the object declaration blocks.
C8_SectionsAsClaimed ==
    Built =>
        LET ls == Lines(source)
        IN  SectionsInOrder(ls, UnionSection(ls), CombinedSection(ls), MapSection(ls))

\* C8, as amended: the sections of the generated text are, in this order, the
\* preamble, the DocumentTypeMap alias (one entry per document type, sorted),
\* the combined AllTypes and AllTypeNames aliases, the DocumentTypes alias
\* with DocumentTypeNames, the document declaration blocks separated by a
\* blank line, the ObjectTypes alias, the object declaration blocks.
C8_SectionsAsEmitted ==
    Built =>
        LET ls == Lines(source)
        IN  SectionsInOrder(ls, MapSection(ls), CombinedSection(ls), UnionSection(ls))

C8_Witness ==
    /\ Built
    /\ locale = "intl"
    /\ schemaDef.documentDefMap = <<Post, Author>>
    /\ schemaDef.objectDefMap = <<Link>>
    /\ LET ls == Lines(source)
       IN  /\ ls[MapSection(ls)[1] + 1] = "  author: author"
           /\ ls[MapSection(ls)[1] + 2] = "  Post: Post"
           /\ MapSection(ls)[2] < UnionSection(ls)[1]
           /\ Len(DocumentHeaders(ls)) = 2

\* the lines of the fields, each rendered by renderFieldDef, in declared order
FieldLines(fieldDefs) ==
    Flatten([i \in 1..Len(fieldDefs) |-> NonBlank(Lines(renderFieldDef(fieldDefs[i])))])

\* the lines of the computed fields in declared order: the description
\* comment if there is one, then the name and the type string as given
ComputedLines(computedFields) ==
    Flatten([i \in 1..Len(computedFields) |->
        (IF Truthy(computedFields[i].description)
         THEN <<"    /** " \o computedFields[i].description[1] \o " */">> ELSE <<>>)
            \o <<"    " \o computedFields[i].name \o ": " \o computedFields[i].type>>])

IdentityLines(name, withId) ==
    (IF withId THEN <<"  _id: string">> ELSE <<>>)
        \o <<"  _typeName: '" \o name \o "'", "  _raw?: Record<string, any>">>

DefNamed(defs, name) == CHOOSE d \in Range(defs) : d.name = name

\* C9: the members in the body of a document type's declaration are, in
\* order, _id: string, _typeName with the quoted name, _raw?, the declared
\* fields in declared order, then the computed fields in declared order with
\* their type strings unchanged; an object type's are the same without _id
\* and without computed fields.  (Blank lines are not members.)
C9_DeclarationBodies ==
    Built =>
        LET ls == Lines(source)
            docs == DocumentHeaders(ls)
            objs == ObjectHeaders(ls)
        IN  /\ Len(docs) = Len(schemaDef.documentDefMap)
            /\ Len(objs) = Len(schemaDef.objectDefMap)
            /\ \A k \in 1..Len(docs) :
                LET d == DefNamed(schemaDef.documentDefMap, HeaderName(ls[docs[k]]))
                    next == IF k < Len(docs) THEN docs[k + 1]
                            ELSE LineIndex(ls, ObjectsMarker)
                IN  NonBlank(Body(ls, docs[k], next)) =
                        IdentityLines(d.name, TRUE) \o FieldLines(d.fieldDefs)
                            \o ComputedLines(d.computedFields)
            /\ \A k \in 1..Len(objs) :
                LET d == DefNamed(schemaDef.objectDefMap, HeaderName(ls[objs[k]]))
                    next == IF k < Len(objs) THEN objs[k + 1] ELSE Len(ls) + 1
                IN  NonBlank(Body(ls, objs[k], next)) =
                        IdentityLines(d.name, FALSE) \o FieldLines(d.fieldDefs)

C9_Witness ==
    /\ Built
    /\ schemaDef.documentDefMap = <<BlogPost>>
    /\ schemaDef.objectDefMap = <<Link>>
    /\ LET ls == Lines(source)
       IN  /\ LineIndex(ls, "  link: Link | undefined") > LineIndex(ls, "  _raw?: Record<string, any>")
           /\ LineIndex(ls, "    slug: string") = LineIndex(ls, "  link: Link | undefined") + 1
           /\ LineIndex(ls, "    readingTime: number | undefined") > LineIndex(ls, "    slug: string")
           /\ LineIndex(ls, "  url: string") > LineIndex(ls, "export type Link = {")

(***************************************************************************)
(* The claim about generateTypes, checked under Spec.                      *)
(***************************************************************************)
\* the steps the claim names
ClaimedSteps == {"provideSchema", "writeSchemaJson", "mkdir", "unlink", "writeFile"}
IsClaimedStep(step) == step \in ClaimedSteps

\* the complete runs: schema.json is written exactly when asked for, and the
\* target file is removed or not
CompleteRuns(withSchemaJson) ==
    {<<"provideSchema">> \o (IF withSchemaJson THEN <<"writeSchemaJson">> ELSE <<>>)
        \o <<"mkdir">> \o removal \o <<"writeFile">> :
            removal \in {<<>>, <<"unlink">>}}

IsPrefix(a, b) == Len(a) <= Len(b) /\ SubSeq(b, 1, Len(a)) = a

\* C10: the steps of a run of generateTypes happen in the order provideSchema,
\* write schema.json (when generateSchemaJson is set, never otherwise), mkdir,
\* unlink the target file if it exists, write the target file; and when the
\* run completes the target file holds buildSource of the provided schema,
\* whether or not the file existed before.
C10_StepsAndResult ==
    LET performed == SelectSeq(steps, IsClaimedStep)
    IN  /\ \E run \in CompleteRuns(generateSchemaJson) :
            IsPrefix(performed, run) /\ (pc = "done" => performed = run)
        /\ schemaJsonFile # <<>> => generateSchemaJson
        /\ (pc = "done" /\ generateSchemaJson) => schemaJsonFile = <<schemaDef>>
        /\ pc = "unlink" => targetFile # <<>>
        /\ pc = "writeFile" => targetFile = <<>>
        /\ pc = "done" => targetFile = <<buildSource(schemaDef)>>

C10_Witness ==
    /\ pc = "done"
    /\ generateSchemaJson
    /\ steps = <<"provideSchema", "makeArtifactsDir", "writeSchemaJson", "mkdir",
                 "unlink", "writeFile">>
    /\ schemaDef.documentDefMap # <<>>
    /\ targetFile = <<source>>
    /\ source # OldContent

(***************************************************************************)
(* Claims about the renderers, checked under RenderSpec.                   *)
(***************************************************************************)
\* the kinds renderFieldType and renderListItemFieldType have a case for
HandledFieldKinds ==
    {"boolean", "string", "date", "image", "markdown", "inline_object", "object",
     "reference", "polymorphic_list", "list", "enum"}
HandledItemKinds == {"boolean", "string", "object", "enum", "inline_object", "reference"}

\* the fields that are members of the inline objects directly in x
DirectMembers(x) ==
    CASE x.type = "inline_object" -> Range(x.fieldDefs)
      [] x.type = "list" ->
            IF x.of.type = "inline_object" THEN Range(x.of.fieldDefs) ELSE {}
      [] x.type = "polymorphic_list" ->
            UNION {IF item.type = "inline_object" THEN Range(item.fieldDefs) ELSE {} :
                        item \in Range(x.of)}
      [] OTHER -> {}

\* x, when it is a field, and the fields nested in it at every depth
RECURSIVE AllFieldDefs(_)
AllFieldDefs(x) ==
    (IF IsFieldDef(x) THEN {x} ELSE {}) \cup UNION {AllFieldDefs(m) : m \in DirectMembers(x)}

UndefinedSuffix == " | undefined"

DescriptionComment(f) ==
    IF Truthy(f.description) THEN "  /** " \o f.description[1] \o " */\n" ELSE ""

ReturnedBy(by) == rendered # <<>> /\ rendered[1].by = by
ReturnedText == rendered[1].value[1]

\* C4: for a field at any nesting depth, the text renderFieldDef produces
\* ends with ' | undefined' exactly when the field is not required, and is
\* the name, the rendered type as it is (no parentheses around it) and then
\* the suffix; the text of a nested field is part of what is emitted for the
\* field it is nested in.
C4_RequiredSuffix ==
    ReturnedBy("renderFieldDef") =>
        \A g \in AllFieldDefs(field) :
            LET text == IF g = field THEN ReturnedText ELSE renderFieldDef(g)
            IN  /\ EndsWith(text, UndefinedSuffix) <=> ~g.required
                /\ text = DescriptionComment(g) \o "  " \o g.name \o ": "
                            \o renderFieldType(g)
                            \o (IF g.required THEN "" ELSE UndefinedSuffix)
                /\ Occurs(Lines(text), Lines(ReturnedText))

C4_Witness ==
    /\ ReturnedBy("renderFieldDef")
    /\ field.type = "list"
    /\ field.required
    /\ field.of.type = "inline_object"
    /\ \E m \in Range(field.of.fieldDefs) :
            /\ m.type = "inline_object"
            /\ m.required
            /\ \E n \in Range(m.fieldDefs) : ~n.required
    /\ ~EndsWith(ReturnedText, UndefinedSuffix)
    /\ Occurs(<<"  m: string | undefined", "}">>, Lines(ReturnedText))

QuotedOptions(options) ==
    join([i \in 1..Len(options) |-> "'" \o options[i] \o "'"], " | ")

ItemsOf(f) == IF f.type = "list" THEN <<f.of>> ELSE f.of

\* C5: renderFieldType gives, for a list, the rendering of its item followed
\* by '[]', and for a polymorphic_list the renderings of its members in
\* declared order joined by ' | ', in one pair of parentheses, followed by
\* '[]'; an enum member is the parenthesised union of its quoted options.
\* list of string is 'string[]'; [string, enum(a, b)] is
\* "(string | ('a' | 'b'))[]".
C5_ListRendering ==
    (/\ ReturnedBy("renderFieldType")
     /\ field.type \in {"list", "polymorphic_list"}
     /\ \A item \in Range(ItemsOf(field)) : item.type \in HandledItemKinds) =>
        LET items == ItemsOf(field)
            texts == [i \in 1..Len(items) |-> renderListItemFieldType(items[i])[1]]
        IN  /\ field.type = "list" => ReturnedText = texts[1] \o "[]"
            /\ field.type = "polymorphic_list" =>
                    ReturnedText = "(" \o join(texts, " | ") \o ")" \o "[]"
            /\ \A i \in 1..Len(items) :
                    items[i].type = "enum" =>
                        texts[i] = "(" \o QuotedOptions(items[i].options) \o ")"
            /\ (field.type = "list" /\ field.of = [type |-> "string"]) =>
                    ReturnedText = "string[]"
            /\ (field.type = "polymorphic_list"
                    /\ field.of = <<[type |-> "string"],
                                    [type |-> "enum", options |-> <<"a", "b">>]>>) =>
                    ReturnedText = "(string | ('a' | 'b'))[]"

C5_Witness ==
    /\ ReturnedBy("renderFieldType")
    /\ field.type = "polymorphic_list"
    /\ field.of = <<[type |-> "string"], [type |-> "enum", options |-> <<"a", "b">>]>>
    /\ ReturnedText = "(string | ('a' | 'b'))[]"

\* C6: for a field of a kind renderFieldType has no case for, it returns a
\* placeholder string that contains the kind's name; for a list item of a
\* kind renderListItemFieldType has no case for, it returns a string too, and
\* one that contains the kind's name.
C6_PlaceholderForUnknownKinds ==
    /\ (ReturnedBy("renderFieldType") /\ field.type \notin HandledFieldKinds) =>
            Contains(ReturnedText, field.type)
    /\ (ReturnedBy("renderListItemFieldType") /\ field.type \notin HandledItemKinds) =>
            /\ rendered[1].value # undefined
            /\ Contains(ReturnedText, field.type)

====
